---- MODULE Spec2Model ----
(***************************************************************************)
(* NomadManager.py: the per-file Decision Engine (process_movie_file), the *)
(* Relocation Manager (unique_dest, move_safe, copy_tree_safe), the show   *)
(* handling with season consolidation (process_show_topdir) and the Poll   *)
(* Loop (scan_and_process), over a small input tree and output tree.       *)
(***************************************************************************)
EXTENDS Integers, Sequences, FiniteSets, TLC

\* File sizes range over 0..MaxSize (0 is a zero-length file).
MaxSize == 2

\* Python's None, one value per type so that values stay comparable: a string
\* (as a character sequence), an integer, a path.
NoneStr == <<"None">>
NoneInt == -1

(***************************************************************************)
(* Names and paths.  A name is <<stem components..., n, suffix>> kept as a *)
(* record: stem is the sequence of dot-separated components before the    *)
(* last suffix, n > 0 is the "_n" that unique_dest appended to the stem,   *)
(* suffix is Path.suffix.  A path is a directory (sequence of names        *)
(* relative to its root) and a name.                                       *)
(***************************************************************************)
TEMP_SUFFIX == ".transcoding"
VIDEO_EXTS == {".mp4", ".mkv", ".avi", ".m4v", ".ts", ".flv", ".mov"}
TEMP_PATTERNS == {".part", ".crdownload", ".!qB", ".partial", ".downloading"}

Nm(stem, suffix) == [stem |-> stem, n |-> 0, suffix |-> suffix]
P(dir, name) == [dir |-> dir, name |-> name]

\* The input tree of the model: two bare movies, and one show with a direct
\* video and a season holding two episodes and a subtitle.
Movie_mkv == P(<<>>, Nm(<<"Movie">>, ".mkv"))
Movie_mp4 == P(<<>>, Nm(<<"Movie">>, ".mp4"))
Intro_mp4 == P(<<"ShowA">>, Nm(<<"intro">>, ".mp4"))
Ep1_avi == P(<<"ShowA", "S1">>, Nm(<<"ep1">>, ".avi"))
Ep2_mkv == P(<<"ShowA", "S1">>, Nm(<<"ep2">>, ".mkv"))
Ep1_srt == P(<<"ShowA", "S1">>, Nm(<<"ep1">>, ".srt"))

MovieFiles == {Movie_mkv, Movie_mp4}
ShowFiles == {Intro_mp4, Ep1_avi, Ep2_mkv, Ep1_srt}
Files == MovieFiles \cup ShowFiles
Videos == {f \in Files : f.name.suffix \in VIDEO_EXTS}

\* sorted(downloads.iterdir()): the possible top-level entries in name order.
ShowA == P(<<>>, Nm(<<"ShowA">>, ""))
TopOrder == <<Movie_mkv, Movie_mp4, ShowA>>
\* the directory a top-level entry names, as a path below the root
DirPath(entry) == entry.dir \o entry.name.stem
NoFile == P(<<>>, Nm(<<>>, ""))

Absent == [present |-> FALSE, size |-> 0, growing |-> FALSE]

\* The statuses the program writes (mark), and the absence of a row.
\* A note is a text with the value formatted into it: an exit code
\* (handbrake_exit_<rc>), a destination (moved to <dest>), or neither.
Note(text, rc, dest) == [text |-> text, rc |-> rc, dest |-> dest]
NoRow == [status |-> "None", note |-> Note("", NoneInt, NoFile)]

VARIABLES
    ARGS,      \* the parsed flags: dry_run, confirm, one_shot
    inFiles,   \* the input tree: file -> [present, size, growing]
    outFiles,  \* the output tree: existing path -> content
    outDirs,   \* the directories that exist under the output root
    db,        \* the Status Store: path -> [status, note]
    pc,        \* where the single thread of control stands
    todo,      \* scan_and_process: the entries of this pass still to visit
    show,      \* the show topdir being handled, or NoFile
    mapping,   \* process_show_topdir: the videos collected, by season
    vids,      \* process_show_topdir: the videos of mapping still to decide
    flagged,   \* process_show_topdir: season_needs_copy
    cur,       \* process_movie_file / file_is_stable: the file at hand
    s1,        \* file_is_stable: the first size sample
    run,       \* what the current Decision Engine run has done so far
    unstable,  \* the paths whose latest Decision Engine run ended at the stability gate
    earlier    \* the paths that were recorded done_moved when the current pass began

vars == <<ARGS, inFiles, outFiles, outDirs, db, pc, todo, show, mapping, vids, flagged, cur, s1, run, unstable,
          earlier>>

(***************************************************************************)
(* Pure helpers.                                                           *)
(***************************************************************************)
\* is_temporary_name: some pattern occurs in the name (name.endswith(p) is a
\* case of p in name); the name's dot-separated components are its stem
\* components and its suffix.
is_temporary_name(name) ==
    \/ \E i \in DOMAIN name.stem : name.stem[i] \in TEMP_PATTERNS
    \/ name.suffix \in TEMP_PATTERNS

\* Path.with_suffix
with_suffix(name, suffix) == [name EXCEPT !.suffix = suffix]

\* unique_dest: dest itself when free, else <stem>_<i><suffix> for the first
\* i = 1, 2, ... that is free.  At most Cardinality(taken) candidates are taken.
unique_dest_bug(taken, dest) ==
    IF dest \notin taken THEN dest
    ELSE LET cand(i) == [dest EXCEPT !.name.n = i]
         IN cand(1)

unique_dest(taken, dest) ==
    IF dest \notin taken THEN dest
    ELSE LET cand(i) == [dest EXCEPT !.name.n = i]
             i == CHOOSE j \in 1..(Cardinality(taken) + 1) :
                      /\ cand(j) \notin taken
                      /\ \A k \in 1..(j - 1) : cand(k) \in taken
         IN cand(i)

\* ensure_dir: mkdir(parents=True, exist_ok=True)
ensure_dir(dirs, d) == dirs \cup {SubSeq(d, 1, k) : k \in 0..Len(d)}

\* str.lower() on the characters the probe strings use.
LowerChar(c) ==
    CASE c = "M" -> "m" [] c = "P" -> "p" [] c = "H" -> "h"
      [] c = "A" -> "a" [] c = "V" -> "v" [] c = "C" -> "c"
      [] OTHER -> c
lower(s) == [i \in DOMAIN s |-> LowerChar(s[i])]

\* needle in hay, for strings as character sequences
contains(hay, needle) ==
    \E i \in 0..(Len(hay) - Len(needle)) :
        SubSeq(hay, i + 1, i + Len(needle)) = needle

\* probe_video's None (nonzero exit, unparseable output)
NoInfo == [format_name |-> NoneStr, vcodec |-> NoneStr, width |-> NoneInt]

\* should_skip_by_probe; info is NoInfo or [format_name, vcodec, width], the
\* two strings NoneStr or character sequences ("x or ''" reads None as "").
should_skip_by_probe_bug(info) ==
    IF info = NoInfo THEN FALSE
    ELSE LET fmt == lower(IF info.format_name = NoneStr THEN <<>> ELSE info.format_name)
             v == lower(IF info.vcodec = NoneStr THEN <<>> ELSE info.vcodec)
             w == info.width
         IN /\ contains(fmt, <<"m", "p", "4">>)
            /\ v \in {<<"h", "2", "6", "4">>, <<"a", "v", "c", "1">>}
            /\ w < 854

should_skip_by_probe(info) ==
    IF info = NoInfo THEN FALSE
    ELSE LET fmt == lower(IF info.format_name = NoneStr THEN <<>> ELSE info.format_name)
             v == lower(IF info.vcodec = NoneStr THEN <<>> ELSE info.vcodec)
             w == info.width
         IN /\ contains(fmt, <<"m", "p", "4">>)
            /\ v \in {<<"h", "2", "6", "4">>, <<"a", "v", "c", "1">>}
            /\ w <= 854

\* What the prober can report (probe_video): None for a nonzero exit or
\* unparseable output, else the first stream's codec and width and the
\* container's format name (a missing width reads as 0).
FMT_MP4 == <<"m", "o", "v", ",", "m", "p", "4", ",", "m", "4", "a", ",", "3", "g", "p", ",", "3", "g", "2", ",", "m", "j", "2">>
FMT_MKV == <<"m", "a", "t", "r", "o", "s", "k", "a", ",", "w", "e", "b", "m">>
FMT_AVI == <<"a", "v", "i">>
ProbeFormats == {NoneStr, FMT_MP4, FMT_MKV, FMT_AVI}
ProbeCodecs == {NoneStr, <<"h", "2", "6", "4">>, <<"H", "2", "6", "4">>, <<"a", "v", "c", "1">>, <<"h", "e", "v", "c">>, <<"m", "p", "e", "g", "4">>}
ProbeWidths == {0, 720, 854, 855, 1920}
ProbeResults ==
    {NoInfo} \cup [format_name : ProbeFormats, vcodec : ProbeCodecs, width : ProbeWidths]

\* What the transcoder can return: its exit code, and the size of the
\* artifact it left at the output path (0: it left nothing).
ExitCodes == {0, 1}
ArtifactSizes == 0..MaxSize

(***************************************************************************)
(* The trees and the Status Store.                                         *)
(***************************************************************************)
Orig(f, size) == [kind |-> "orig", of |-> f, size |-> size]
Trans(f, size) == [kind |-> "trans", of |-> f, size |-> size]
Foreign == [kind |-> "pre", of |-> NoFile, size |-> 1]

exists(out, p) == p \in DOMAIN out
Put(out, p, c) == [q \in DOMAIN out \cup {p} |-> IF q = p THEN c ELSE out[q]]
Del(out, p) == [q \in DOMAIN out \ {p} |-> out[q]]

\* rel_output_path / (output_root / src.relative_to(downloads_root)): both
\* trees use root-relative paths, so the mirrored path is the same record.
dest_dir_of_bug(src) == <<>>

dest_dir_of(src) == src.dir
dest_tmp_of(src) == P(src.dir, with_suffix(src.name, ".mp4" \o TEMP_SUFFIX))
dest_final_of(src) == P(src.dir, with_suffix(src.name, ".mp4"))

\* mark: upsert of status and note
mark(d, path, status, note) == [d EXCEPT ![path] = [status |-> status, note |-> note]]
status_of(d, path) == d[path].status

\* move_safe(src, dest_dir).  how is what the filesystem lets happen:
\*   "renamed"      src.rename(dest) succeeds
\*   "copied"       rename raises, copy2 and unlink succeed
\*   "copied_kept"  rename raises, copy2 succeeds, unlink raises (passed over)
\*   "raised"       rename raises and copy2 raises: the exception leaves move_safe
MoveOutcomes(inT, src) ==
    IF inT[src].present THEN {"renamed", "copied", "copied_kept", "raised"}
    ELSE {"raised"}

move_safe(args, inT, out, dirs, src, dest_dir, how) ==
    LET dest == unique_dest(DOMAIN out, P(dest_dir, src.name))
        dirs2 == ensure_dir(dirs, dest_dir)
    IN IF args.dry_run
       THEN [inT |-> inT, out |-> out, dirs |-> dirs2, dest |-> dest, raised |-> FALSE]
       ELSE IF how = "raised"
       THEN [inT |-> inT, out |-> out, dirs |-> dirs2, dest |-> dest, raised |-> TRUE]
       ELSE [inT |-> IF how = "copied_kept" THEN inT ELSE [inT EXCEPT ![src] = Absent],
             out |-> Put(out, dest, Orig(src, inT[src].size)),
             dirs |-> dirs2, dest |-> dest, raised |-> FALSE]

\* is d a prefix of e (e is d or lies below d)
under(d, e) == Len(d) <= Len(e) /\ SubSeq(e, 1, Len(d)) = d

copy_tree_safe_bug(args, inT, out, dirs, src_dir) ==
    LET below == {f \in Videos : inT[f].present /\ under(src_dir, f.dir)}
        dirs2 == ensure_dir(dirs, src_dir)
    IN IF args.dry_run THEN [out |-> out, dirs |-> dirs2]
       ELSE [out |-> [q \in DOMAIN out \cup below |->
                        IF q \in below THEN Orig(q, inT[q].size) ELSE out[q]],
             dirs |-> UNION {ensure_dir(dirs2, f.dir) : f \in below} \cup dirs2]

\* copy_tree_safe(src_dir, dest_dir) with dest_dir the mirror of src_dir:
\* shutil.copytree(dirs_exist_ok=True) copies every file below src_dir to the
\* same relative place, replacing a file already there, and deletes nothing.
copy_tree_safe(args, inT, out, dirs, src_dir) ==
    LET below == {f \in Files : inT[f].present /\ under(src_dir, f.dir)}
        dirs2 == ensure_dir(dirs, src_dir)
    IN IF args.dry_run THEN [out |-> out, dirs |-> dirs2]
       ELSE [out |-> [q \in DOMAIN out \cup below |->
                        IF q \in below THEN Orig(q, inT[q].size) ELSE out[q]],
             dirs |-> UNION {ensure_dir(dirs2, f.dir) : f \in below} \cup dirs2]

\* collect_videos_two_depth(top): season name -> videos; "" for the videos
\* directly in top, a subdirectory's name for those in it or anywhere below.
SeasonOf(top, f) == IF f.dir = top THEN "" ELSE f.dir[Len(top) + 1]
collect_videos_two_depth(inT, top) ==
    {<<SeasonOf(top, f), f>> : f \in {g \in Files :
        /\ inT[g].present
        /\ g.name.suffix \in VIDEO_EXTS
        /\ under(top, g.dir)}}

(***************************************************************************)
(* The record of one Decision Engine run, for stating what a run did:      *)
(* how it ended ("" while it runs), whether the operator was prompted,     *)
(* whether transcode_with_handbrake was called and HandBrakeCLI was run,   *)
(* whether the probe result met the skip policy as the specification       *)
(* words it, the exit code, the two sizes compared, the destination, what  *)
(* the filesystem let the relocation do, and the row before the run.       *)
(***************************************************************************)
\* The skip policy as section 4.2 words it: the container is an MP4 variant,
\* the video codec is H.264/AVC, the width is at most 854.
Mp4Variants == {FMT_MP4}
H264Names == {<<"h", "2", "6", "4">>, <<"H", "2", "6", "4">>, <<"a", "v", "c", "1">>}
AlreadyAcceptable(info) ==
    /\ info # NoInfo
    /\ info.format_name \in Mp4Variants
    /\ info.vcodec \in H264Names
    /\ info.width <= 854

RunNone ==
    [end |-> "", pre |-> NoRow, prompted |-> FALSE, invoked |-> FALSE, ran |-> FALSE,
     probed |-> FALSE, acceptable |-> FALSE, rc |-> NoneInt,
     orig |-> NoneInt, new |-> NoneInt, dest |-> NoFile, fs |-> ""]

(***************************************************************************)
(* Init: the state after main() parsed the flags and scan_and_process      *)
(* opened the Status Store (empty: first run, or --reset-db); the program  *)
(* runs without --posters-only, and the poster lookup is left out.         *)
(***************************************************************************)
\* A file of the input tree at start: complete (MaxSize bytes), or a
\* download still being written that has no bytes yet and may end at any size.
StartStates == {[present |-> TRUE, size |-> MaxSize, growing |-> FALSE],
                [present |-> TRUE, size |-> 0, growing |-> TRUE]}

\* The files the download client may still be writing at start: the first
\* bare movie, the first episode.
Downloading == {Movie_mkv, Ep1_avi}

\* The input trees the model starts from: the two bare movies, the show with
\* its season, or the show with a direct video and one episode.
Worlds == {MovieFiles, {Ep1_avi, Ep2_mkv, Ep1_srt}, {Intro_mp4, Ep1_avi, Ep1_srt}}

\* Files already in the output tree at start (left by earlier use).
PreExisting == {{}, {Movie_mp4}}

Init ==
    /\ ARGS \in [dry_run : BOOLEAN, confirm : BOOLEAN, one_shot : BOOLEAN]
    /\ \E w \in Worlds :
         /\ inFiles \in [Files -> StartStates \cup {Absent}]
         /\ \A f \in Files : inFiles[f].present <=> f \in w
         /\ \A f \in Files \ Downloading : ~inFiles[f].growing
         /\ \E pre \in PreExisting :
              /\ w # MovieFiles => pre = {}
              /\ outFiles = [q \in pre |-> Foreign]
    /\ outDirs = {<<>>}
    /\ db = [f \in Files |-> NoRow]
    /\ pc = "pass_start"
    /\ todo = <<>>
    /\ show = NoFile
    /\ mapping = {}
    /\ vids = {}
    /\ flagged = {}
    /\ cur = NoFile
    /\ s1 = NoneInt
    /\ run = RunNone
    /\ unstable = {}
    /\ earlier = {}

(***************************************************************************)
(* The environment: the download client writing, finishing or removing a  *)
(* file it has not finished, while the program is running.                *)
(***************************************************************************)
Running == pc \notin {"exited", "interrupted", "crashed"}

Grow(f) ==
    /\ Running
    /\ inFiles[f].present /\ inFiles[f].growing /\ inFiles[f].size < MaxSize
    /\ inFiles' = [inFiles EXCEPT ![f].size = @ + 1]
    /\ UNCHANGED <<ARGS, outFiles, outDirs, db, pc, todo, show, mapping, vids, flagged, cur, s1, run, unstable, earlier>>

Finish(f) ==
    /\ Running
    /\ inFiles[f].present /\ inFiles[f].growing /\ inFiles[f].size > 0
    /\ inFiles' = [inFiles EXCEPT ![f].growing = FALSE]
    /\ UNCHANGED <<ARGS, outFiles, outDirs, db, pc, todo, show, mapping, vids, flagged, cur, s1, run, unstable, earlier>>

Vanish(f) ==
    /\ Running
    /\ inFiles[f].present /\ inFiles[f].growing
    /\ inFiles' = [inFiles EXCEPT ![f] = Absent]
    /\ UNCHANGED <<ARGS, outFiles, outDirs, db, pc, todo, show, mapping, vids, flagged, cur, s1, run, unstable, earlier>>

(***************************************************************************)
(* scan_and_process: the Poll Loop.                                        *)
(***************************************************************************)
is_file(inT, e) == e \in Files /\ inT[e].present
is_dir(inT, e) ==
    e \notin Files /\ \E f \in Files : inT[f].present /\ under(DirPath(e), f.dir)
\* entry.name.startswith("."): the name's first dot-separated component is empty
is_hidden(name) == Len(name.stem) > 0 /\ name.stem[1] = ""

\* for entry in sorted(downloads.iterdir()): the listing is taken once per pass
PassStart ==
    /\ pc = "pass_start"
    /\ todo' = SelectSeq(TopOrder, LAMBDA e : is_file(inFiles, e) \/ is_dir(inFiles, e))
    /\ pc' = "dispatch"
    /\ earlier' = {f \in Files : status_of(db, f) = "done_moved"}
    /\ UNCHANGED <<ARGS, inFiles, outFiles, outDirs, db, show, mapping, vids, flagged, cur, s1, run, unstable>>

\* the entries the loop passes over: hidden, temp-named, a directory without
\* videos, a file that is no video, an entry that is gone
DispatchSkip ==
    /\ pc = "dispatch" /\ todo # <<>>
    /\ LET e == Head(todo)
       IN \/ is_hidden(e.name)
          \/ is_temporary_name(e.name)
          \/ is_dir(inFiles, e) /\ collect_videos_two_depth(inFiles, DirPath(e)) = {}
          \/ is_file(inFiles, e) /\ e.name.suffix \notin VIDEO_EXTS
          \/ ~is_dir(inFiles, e) /\ ~is_file(inFiles, e)
    /\ todo' = Tail(todo)
    /\ UNCHANGED <<ARGS, inFiles, outFiles, outDirs, db, pc, show, mapping, vids, flagged, cur, s1, run, unstable, earlier>>

\* a directory with videos: sample the first video of the first season listed
DispatchShow ==
    /\ pc = "dispatch" /\ todo # <<>>
    /\ LET e == Head(todo)
           collected == collect_videos_two_depth(inFiles, DirPath(e))
           first == IF \E v \in collected : v[1] = ""
                    THEN {v \in collected : v[1] = ""} ELSE collected
       IN /\ ~is_hidden(e.name) /\ ~is_temporary_name(e.name)
          /\ is_dir(inFiles, e) /\ collected # {}
          /\ \E v \in first : cur' = v[2]
          /\ show' = e
    /\ todo' = Tail(todo)
    /\ pc' = "sample_stat1"
    /\ UNCHANGED <<ARGS, inFiles, outFiles, outDirs, db, mapping, vids, flagged, s1, run, unstable, earlier>>

\* a bare movie file
DispatchMovie ==
    /\ pc = "dispatch" /\ todo # <<>>
    /\ LET e == Head(todo)
       IN /\ ~is_hidden(e.name) /\ ~is_temporary_name(e.name)
          /\ is_file(inFiles, e) /\ e.name.suffix \in VIDEO_EXTS
          /\ cur' = e
    /\ todo' = Tail(todo)
    /\ show' = NoFile
    /\ run' = RunNone
    /\ pc' = "pmf_gate"
    /\ UNCHANGED <<ARGS, inFiles, outFiles, outDirs, db, mapping, vids, flagged, s1, unstable, earlier>>

\* the end of a pass: --one-shot leaves the loop, else time.sleep(poll_interval)
PassEnd ==
    /\ pc = "dispatch" /\ todo = <<>>
    /\ pc' = IF ARGS.one_shot THEN "exited" ELSE "pass_start"
    /\ UNCHANGED <<ARGS, inFiles, outFiles, outDirs, db, todo, show, mapping, vids, flagged, cur, s1, run, unstable, earlier>>

\* except KeyboardInterrupt: the interrupt is raised wherever the thread
\* stands; the handler encloses the whole loop, and the function returns.
Interrupt ==
    /\ Running
    /\ pc' = "interrupted"
    /\ todo' = <<>> /\ mapping' = {} /\ vids' = {} /\ flagged' = {} /\ s1' = NoneInt
    /\ UNCHANGED <<ARGS, inFiles, outFiles, outDirs, db, show, cur, run, unstable, earlier>>

(***************************************************************************)
(* file_is_stable: two size samples with a sleep between them, called by   *)
(* scan_and_process on a show's sample and by process_movie_file.          *)
(***************************************************************************)
\* where the caller goes on a False and on a True
Unstable(caller) == IF caller = "sample" THEN "dispatch" ELSE "pmf_ret"
Stable(caller) == IF caller = "sample" THEN "show_start" ELSE "pmf_probe"

FileIsStable1 ==
    /\ pc \in {"sample_stat1", "pmf_stat1"}
    /\ LET caller == IF pc = "sample_stat1" THEN "sample" ELSE "pmf"
       IN IF inFiles[cur].present
          THEN /\ s1' = inFiles[cur].size
               /\ pc' = IF caller = "sample" THEN "sample_stat2" ELSE "pmf_stat2"
               /\ UNCHANGED <<show, cur, run, unstable>>
          ELSE /\ s1' = NoneInt
               /\ pc' = Unstable(caller)
               /\ show' = IF caller = "sample" THEN NoFile ELSE show
               /\ cur' = IF caller = "sample" THEN NoFile ELSE cur
               /\ run' = IF caller = "sample" THEN run ELSE [run EXCEPT !.end = "unstable"]
               /\ unstable' = IF caller = "sample" THEN unstable ELSE unstable \cup {cur}
    /\ UNCHANGED <<ARGS, inFiles, outFiles, outDirs, db, todo, mapping, vids, flagged, earlier>>

FileIsStable2 ==
    /\ pc \in {"sample_stat2", "pmf_stat2"}
    /\ LET caller == IF pc = "sample_stat2" THEN "sample" ELSE "pmf"
           ok == inFiles[cur].present /\ s1 = inFiles[cur].size /\ s1 > 0
       IN /\ pc' = IF ok THEN Stable(caller) ELSE Unstable(caller)
          /\ show' = IF caller = "sample" /\ ~ok THEN NoFile ELSE show
          /\ cur' = IF caller = "sample" THEN NoFile ELSE cur
          /\ run' = IF caller = "pmf" /\ ~ok THEN [run EXCEPT !.end = "unstable"] ELSE run
          /\ unstable' = IF caller = "pmf" /\ ~ok THEN unstable \cup {cur} ELSE unstable
    /\ s1' = NoneInt
    /\ UNCHANGED <<ARGS, inFiles, outFiles, outDirs, db, todo, mapping, vids, flagged, earlier>>

(***************************************************************************)
(* process_movie_file: the Decision Engine, in the steps between which the *)
(* environment can act: the gates, the two stability samples above, the    *)
(* probe with the skip branch, the transcode, the size comparison with the *)
(* relocation.                                                             *)
(***************************************************************************)
\* the statuses the idempotency gate stops on
GateStatuses_err ==
    {"processing", "done_moved", "skipped_moved", "kept_original_moved", "copied_season",
     "error"}

GateStatuses_bug ==
    {"processing", "done_moved", "skipped_moved", "kept_original_moved"}

GateStatuses ==
    {"processing", "done_moved", "skipped_moved", "kept_original_moved", "copied_season"}

\* ask_confirm: under --dry-run no prompt and True, else the operator's answer
Answers(args) == IF args.dry_run THEN {TRUE} ELSE BOOLEAN

PmfGate ==
    /\ pc = "pmf_gate"
    /\ LET start == [RunNone EXCEPT !.pre = db[cur]]
       IN IF status_of(db, cur) \in GateStatuses
          THEN /\ pc' = "pmf_ret"
               /\ run' = [start EXCEPT !.end = "terminal"]
               /\ UNCHANGED <<db, unstable>>
          ELSE IF is_temporary_name(cur.name)
          THEN /\ pc' = "pmf_ret"
               /\ run' = [start EXCEPT !.end = "temp"]
               /\ UNCHANGED <<db, unstable>>
          ELSE IF ARGS.confirm
          THEN \E ans \in Answers(ARGS) :
                 IF ans
                 THEN /\ pc' = "pmf_stat1"
                      /\ run' = [start EXCEPT !.prompted = ~ARGS.dry_run]
                      /\ db' = db
                      /\ unstable' = unstable \ {cur}
                 ELSE /\ pc' = "pmf_ret"
                      /\ run' = [start EXCEPT !.prompted = TRUE, !.end = "declined"]
                      /\ db' = mark(db, cur, "skipped_by_user", Note("user skipped", NoneInt, NoFile))
                      /\ unstable' = unstable
          ELSE /\ pc' = "pmf_stat1"
               /\ run' = start
               /\ db' = db
               /\ unstable' = unstable \ {cur}
    /\ UNCHANGED <<ARGS, inFiles, outFiles, outDirs, todo, show, mapping, vids, flagged, cur, s1, earlier>>

\* probe_video and should_skip_by_probe; on a match the original is moved and
\* marked skipped_moved, else the file is marked queued.  An exception that
\* leaves move_safe is caught nowhere: it ends the program.
PmfProbe ==
    /\ pc = "pmf_probe"
    /\ \E verdict \in {<<should_skip_by_probe(info), AlreadyAcceptable(info)>> :
                          info \in ProbeResults} :
         LET seen == [run EXCEPT !.probed = TRUE, !.acceptable = verdict[2]]
         IN IF verdict[1]
            THEN \E how \in MoveOutcomes(inFiles, cur) :
                   LET mv == move_safe(ARGS, inFiles, outFiles, outDirs, cur, dest_dir_of(cur), how)
                   IN /\ inFiles' = mv.inT
                      /\ outFiles' = mv.out
                      /\ outDirs' = mv.dirs
                      /\ IF mv.raised
                         THEN /\ pc' = "crashed"
                              /\ db' = db
                              /\ run' = [seen EXCEPT !.end = "raised", !.fs = how]
                         ELSE /\ pc' = "pmf_ret"
                              /\ db' = mark(db, cur, "skipped_moved", Note("moved to ", NoneInt, mv.dest))
                              /\ run' = [seen EXCEPT !.end = "skipped", !.dest = mv.dest, !.fs = how]
            ELSE /\ db' = mark(db, cur, "queued", Note("ready", NoneInt, NoFile))
                 /\ pc' = "pmf_transcode"
                 /\ run' = seen
                 /\ UNCHANGED <<inFiles, outFiles, outDirs>>
    /\ UNCHANGED <<ARGS, todo, show, mapping, vids, flagged, cur, s1, unstable, earlier>>

\* if dest_tmp.exists(): dest_tmp.unlink()
unlink_if_exists_bug(out, p) == out

unlink_if_exists(out, p) == IF exists(out, p) THEN Del(out, p) ELSE out

\* transcode_with_handbrake and the handling of a nonzero exit code.  Under
\* --dry-run the tool is not run and the code is 0.  The tool can fail, and
\* fails when its input is gone; with any code it may have written an
\* artifact (replacing one left there) or none.
PmfTranscode ==
    /\ pc = "pmf_transcode"
    /\ LET tmp == dest_tmp_of(cur)
           dirs2 == ensure_dir(outDirs, tmp.dir)
       IN \E rc \in ExitCodes, art \in ArtifactSizes :
            /\ ARGS.dry_run => rc = 0 /\ art = 0
            /\ ~inFiles[cur].present => rc # 0 /\ art = 0
            /\ LET out2 == IF art = 0 THEN outFiles ELSE Put(outFiles, tmp, Trans(cur, art))
                   ran == [run EXCEPT !.invoked = TRUE, !.ran = ~ARGS.dry_run, !.rc = rc]
               IN IF rc # 0
                  THEN /\ db' = mark(db, cur, "error", Note("handbrake_exit_", rc, NoFile))
                       /\ outFiles' = unlink_if_exists(out2, tmp)
                       /\ pc' = "pmf_ret"
                       /\ run' = [ran EXCEPT !.end = "tool_failed"]
                  ELSE /\ db' = db
                       /\ outFiles' = out2
                       /\ pc' = "pmf_finish"
                       /\ run' = ran
            /\ outDirs' = dirs2
    /\ UNCHANGED <<ARGS, inFiles, todo, show, mapping, vids, flagged, cur, s1, unstable, earlier>>

\* the size comparison: orig_size <= new_size keeps the original
keeps_original_bug(orig_size, new_size) == orig_size < new_size

keeps_original(orig_size, new_size) == orig_size <= new_size

\* After a zero exit: no artifact, a size that cannot be read, the original
\* kept and moved, or the artifact renamed to its final name and the original
\* unlinked (a failing unlink is passed over).
PmfFinish ==
    /\ pc = "pmf_finish"
    /\ LET tmp == dest_tmp_of(cur)
       IN IF ~exists(outFiles, tmp)
          THEN /\ db' = mark(db, cur, "error", Note("no_output", NoneInt, NoFile))
               /\ pc' = "pmf_ret"
               /\ run' = [run EXCEPT !.end = "no_output"]
               /\ UNCHANGED <<inFiles, outFiles, outDirs>>
          ELSE IF ~inFiles[cur].present
          THEN /\ db' = mark(db, cur, "error", Note("stat_failed", NoneInt, NoFile))
               /\ pc' = "pmf_ret"
               /\ run' = [run EXCEPT !.end = "stat_failed"]
               /\ UNCHANGED <<inFiles, outFiles, outDirs>>
          ELSE LET orig_size == inFiles[cur].size
                   new_size == outFiles[tmp].size
                   sized == [run EXCEPT !.orig = orig_size, !.new = new_size]
               IN IF keeps_original(orig_size, new_size)
                  THEN \E how \in MoveOutcomes(inFiles, cur) :
                         LET out2 == IF ARGS.dry_run THEN outFiles ELSE Del(outFiles, tmp)
                             mv == move_safe(ARGS, inFiles, out2, outDirs, cur, dest_dir_of(cur), how)
                         IN /\ inFiles' = mv.inT
                            /\ outFiles' = mv.out
                            /\ outDirs' = mv.dirs
                            /\ IF mv.raised
                               THEN /\ pc' = "crashed"
                                    /\ db' = db
                                    /\ run' = [sized EXCEPT !.end = "raised", !.fs = how]
                               ELSE /\ pc' = "pmf_ret"
                                    /\ db' = mark(db, cur, "kept_original_moved",
                                                  Note("moved original to ", NoneInt, mv.dest))
                                    /\ run' = [sized EXCEPT !.end = "kept", !.dest = mv.dest, !.fs = how]
                  ELSE LET final == dest_final_of(cur)
                           dest_final == IF exists(outFiles, final)
                                         THEN unique_dest(DOMAIN outFiles, final) ELSE final
                       IN \E renamed \in BOOLEAN, unlinked \in BOOLEAN :
                            IF ARGS.dry_run
                            THEN /\ renamed /\ unlinked
                                 /\ db' = mark(db, cur, "done_moved",
                                               Note("moved transcode to ", NoneInt, dest_final))
                                 /\ pc' = "pmf_ret"
                                 /\ run' = [sized EXCEPT !.end = "done", !.dest = dest_final]
                                 /\ UNCHANGED <<inFiles, outFiles, outDirs>>
                            ELSE IF renamed
                            THEN /\ outFiles' = Put(Del(outFiles, tmp), dest_final, outFiles[tmp])
                                 /\ inFiles' = IF unlinked THEN [inFiles EXCEPT ![cur] = Absent]
                                               ELSE inFiles
                                 /\ db' = mark(db, cur, "done_moved",
                                               Note("moved transcode to ", NoneInt, dest_final))
                                 /\ pc' = "pmf_ret"
                                 /\ run' = [sized EXCEPT !.end = "done", !.dest = dest_final,
                                                          !.fs = IF unlinked THEN "renamed"
                                                                 ELSE "renamed_kept"]
                                 /\ UNCHANGED outDirs
                            ELSE /\ unlinked
                                 /\ db' = mark(db, cur, "error", Note("move_failed:", NoneInt, dest_final))
                                 /\ pc' = "pmf_ret"
                                 /\ run' = [sized EXCEPT !.end = "move_failed", !.fs = "raised"]
                                 /\ UNCHANGED <<inFiles, outFiles, outDirs>>
    /\ UNCHANGED <<ARGS, todo, show, mapping, vids, flagged, cur, s1, unstable, earlier>>

\* process_movie_file has returned: scan_and_process goes on with the next
\* entry; process_show_topdir reads the status and flags the season.
PmfRet ==
    /\ pc = "pmf_ret"
    /\ IF show = NoFile
       THEN /\ pc' = "dispatch"
            /\ UNCHANGED flagged
       ELSE /\ pc' = "show_next"
            /\ flagged' = IF status_of(db, cur) \in {"skipped_moved", "kept_original_moved"}
                          THEN flagged \cup {SeasonOf(DirPath(show), cur)}
                          ELSE flagged
    /\ cur' = NoFile
    /\ run' = RunNone
    /\ UNCHANGED <<ARGS, inFiles, outFiles, outDirs, db, todo, show, mapping, vids, s1, unstable, earlier>>

(***************************************************************************)
(* process_show_topdir                                                     *)
(***************************************************************************)
ShowStart ==
    /\ pc = "show_start"
    /\ LET collected == collect_videos_two_depth(inFiles, DirPath(show))
       IN IF collected = {}
          THEN /\ pc' = "dispatch" /\ show' = NoFile /\ UNCHANGED <<mapping, vids, flagged>>
          ELSE /\ pc' = "show_next" /\ mapping' = collected /\ vids' = collected
               /\ flagged' = {} /\ show' = show
    /\ UNCHANGED <<ARGS, inFiles, outFiles, outDirs, db, todo, cur, s1, run, unstable, earlier>>

\* the direct files first, then the seasons' videos; when none is left, the
\* copy of the flagged seasons
ShowNext ==
    /\ pc = "show_next"
    /\ IF vids = {}
       THEN /\ pc' = "consolidate"
            /\ UNCHANGED <<vids, cur, run>>
       ELSE LET direct == {v \in vids : v[1] = ""}
            IN \E v \in (IF direct # {} THEN direct ELSE vids) :
                 /\ cur' = v[2]
                 /\ vids' = vids \ {v}
                 /\ run' = RunNone
                 /\ pc' = "pmf_gate"
    /\ UNCHANGED <<ARGS, inFiles, outFiles, outDirs, db, todo, show, mapping, flagged, s1, unstable, earlier>>

\* for sk in list(season_needs_copy): copy the season's directory (the show's
\* for "") and mark every video found below it copied_season
season_dir(top, sk) == IF sk = "" THEN top ELSE top \o <<sk>>

\* for f in src_dir.rglob("*"): if f.is_file() and f.suffix.lower() in VIDEO_EXTS
season_videos_bug(inT, src_dir) == {f \in Videos : under(src_dir, f.dir)}

season_videos(inT, src_dir) == {f \in Videos : inT[f].present /\ under(src_dir, f.dir)}

ConsolidateSeason ==
    /\ pc = "consolidate"
    /\ \E sk \in flagged :
         LET src_dir == season_dir(DirPath(show), sk)
             cp == copy_tree_safe(ARGS, inFiles, outFiles, outDirs, src_dir)
             found == season_videos(inFiles, src_dir)
         IN /\ outFiles' = cp.out
            /\ outDirs' = cp.dirs
            /\ db' = [f \in Files |->
                        IF f \in found
                        THEN [status |-> "copied_season",
                              note |-> Note("season copied to ", NoneInt, P(src_dir, Nm(<<>>, "")))]
                        ELSE db[f]]
            /\ flagged' = flagged \ {sk}
    /\ UNCHANGED <<ARGS, inFiles, pc, todo, show, mapping, vids, cur, s1, run, unstable, earlier>>

\* every flagged season is copied (the poster step that follows touches
\* neither tree's videos nor the Status Store)
ShowEnd ==
    /\ pc = "consolidate" /\ flagged = {}
    /\ pc' = "dispatch"
    /\ show' = NoFile
    /\ mapping' = {}
    /\ UNCHANGED <<ARGS, inFiles, outFiles, outDirs, db, todo, vids, flagged, cur, s1, run, unstable, earlier>>

Next ==
    \/ PassStart \/ DispatchSkip \/ DispatchShow \/ DispatchMovie \/ PassEnd
    \/ FileIsStable1 \/ FileIsStable2
    \/ PmfGate \/ PmfProbe \/ PmfTranscode \/ PmfFinish \/ PmfRet
    \/ ShowStart \/ ShowNext \/ ConsolidateSeason \/ ShowEnd
    \/ \E f \in Videos : Grow(f) \/ Finish(f) \/ Vanish(f)

Spec == Init /\ [][Next]_vars

\* the same program with an operator who may interrupt it
NextInterruptible == Next \/ Interrupt
SpecInterruptible == Init /\ [][NextInterruptible]_vars

(***************************************************************************)
(* The properties.                                                         *)
(***************************************************************************)
\* the trees and the store, which a step of the program may or may not touch
NoFsChange == inFiles' = inFiles /\ outFiles' = outFiles /\ outDirs' = outDirs
\* a step taken by the program (every step of it moves pc), not the environment
ProgramStep == pc' # pc

\* C1: a Decision Engine run on a path whose recorded status is done_moved,
\* skipped_moved, kept_original_moved or copied_season returns at once: it
\* writes no status and changes nothing in either tree, in any pass and mode.
C1_TerminalIsNoOp ==
    [][(/\ pc = "pmf_gate"
        /\ status_of(db, cur) \in {"done_moved", "skipped_moved",
                                   "kept_original_moved", "copied_season"}
        /\ ProgramStep)
       => (pc' = "pmf_ret" /\ db' = db /\ NoFsChange)]_vars

\* C1 witness: the engine has run on a path recorded terminal whose file is
\* still in the input tree, and has returned at the gate.
C1_Witness ==
    /\ pc = "pmf_ret" /\ run.end = "terminal"
    /\ inFiles[cur].present
    /\ status_of(db, cur) \in {"done_moved", "skipped_moved",
                               "kept_original_moved", "copied_season"}

\* C2: once a path is recorded skipped_by_user, a Decision Engine run on it
\* returns at once: no prompt, no status write, no change to either tree.
C2_DeclinedIsNeverRetried ==
    [][(pc = "pmf_gate" /\ status_of(db, cur) = "skipped_by_user" /\ ProgramStep)
       => (pc' = "pmf_ret" /\ ~run'.prompted /\ db' = db /\ NoFsChange)]_vars

\* C2 is refuted by the gate (GateStatuses holds no skipped_by_user): no
\* witness.

\* two names that differ at most in the "_n" unique_dest appends
SameNameUpToN(a, b) == [a EXCEPT !.n = 0] = [b EXCEPT !.n = 0]
\* the step of the Decision Engine that compares the two sizes
ComparesSizes == pc = "pmf_finish" /\ ProgramStep /\ run'.orig # NoneInt

Probes == pc = "pmf_probe" /\ ProgramStep
\* the step that calls transcode_with_handbrake
Transcodes == pc = "pmf_transcode" /\ ProgramStep

\* C4 as stated: for a file that passed the gates, the engine ends with
\* skipped_moved, the original moved unmodified to the mirrored directory and
\* the transcoder never invoked if and only if the probe reports an MP4
\* variant, H.264/AVC and width <= 854; in every other case the status
\* becomes queued and the transcoder is invoked.  (Stated for the runs the
\* engine goes on or returns from, so that a violation is none of move_safe
\* raising.)
C4_SkipPolicy ==
    [][/\ (Probes /\ pc' # "crashed") =>
            IF run'.acceptable
            THEN /\ pc' = "pmf_ret" /\ ~run'.invoked
                 /\ status_of(db', cur) = "skipped_moved"
                 /\ ~inFiles'[cur].present
                 /\ \E q \in DOMAIN outFiles' \ DOMAIN outFiles :
                      /\ q.dir = dest_dir_of(cur)
                      /\ outFiles'[q] = Orig(cur, inFiles[cur].size)
            ELSE /\ pc' = "pmf_transcode"
                 /\ status_of(db', cur) = "queued"
       /\ Transcodes => run'.invoked]_vars

\* C4 amended: the skip branch is taken if and only if the probe reports an
\* MP4 variant, H.264/AVC and width <= 854, and it never invokes the
\* transcoder; it ends with skipped_moved when move_safe returns, which under
\* dry-run leaves both trees as they are and otherwise stores the original
\* unmodified under its own name (up to a collision suffix) in the mirrored
\* directory, the original leaving the input tree unless its unlink failed;
\* when the original can be neither renamed nor copied the engine does not
\* return and no status is written.  In every other case the status becomes
\* queued, nothing is moved, and transcode_with_handbrake is called next,
\* which runs the tool only outside dry-run.
C4_SkipPolicyAmended ==
    [][/\ Probes =>
            IF run'.acceptable
            THEN /\ ~run'.invoked
                 /\ run'.end \in {"skipped", "raised"}
                 /\ run'.end = "skipped" =>
                      /\ pc' = "pmf_ret"
                      /\ db'[cur] = [status |-> "skipped_moved",
                                     note |-> Note("moved to ", NoneInt, run'.dest)]
                      /\ run'.dest.dir = dest_dir_of(cur)
                      /\ SameNameUpToN(run'.dest.name, cur.name)
                      /\ IF ARGS.dry_run
                         THEN inFiles' = inFiles /\ outFiles' = outFiles
                         ELSE /\ DOMAIN outFiles' \ DOMAIN outFiles = {run'.dest}
                              /\ outFiles'[run'.dest] = Orig(cur, inFiles[cur].size)
                              /\ inFiles'[cur].present <=> run'.fs = "copied_kept"
                 /\ run'.end = "raised" =>
                      /\ ~ARGS.dry_run
                      /\ pc' = "crashed"
                      /\ db' = db /\ inFiles' = inFiles /\ outFiles' = outFiles
            ELSE /\ pc' = "pmf_transcode"
                 /\ status_of(db', cur) = "queued"
                 /\ NoFsChange
       /\ Transcodes => (run'.invoked /\ (run'.ran <=> ~ARGS.dry_run))]_vars

\* C4 witness: outside dry-run a file the probe found acceptable was moved
\* to the output tree and recorded skipped_moved, the transcoder not invoked.
C4_Witness ==
    /\ pc = "pmf_ret" /\ ~ARGS.dry_run
    /\ run.probed /\ run.acceptable /\ ~run.invoked
    /\ status_of(db, cur) = "skipped_moved"
    /\ exists(outFiles, run.dest) /\ ~inFiles[cur].present

\* a step of the Decision Engine that may relocate a file
Relocates == pc \in {"pmf_probe", "pmf_finish"} /\ ProgramStep

\* C5: relocating a file (moving an original, or renaming the artifact to its
\* final .mp4 name) never overwrites or removes a file already in the output
\* tree, and the relocated file is stored under the target name if that is
\* free, else as <stem>_<i><suffix> for the smallest i >= 1 whose name is free.
C5_CollisionSafeNaming ==
    [][Relocates =>
         LET tmp == dest_tmp_of(cur)
         IN /\ \A q \in DOMAIN outFiles \ {tmp} :
                 exists(outFiles', q) /\ outFiles'[q] = outFiles[q]
            /\ \A q \in DOMAIN outFiles' \ DOMAIN outFiles :
                 /\ q.dir = dest_dir_of(cur)
                 /\ \/ /\ SameNameUpToN(q.name, cur.name)
                       /\ outFiles'[q] = Orig(cur, inFiles[cur].size)
                    \/ /\ SameNameUpToN(q.name, dest_final_of(cur).name)
                       /\ exists(outFiles, tmp) /\ outFiles'[q] = outFiles[tmp]
                 /\ \A k \in 0..(q.name.n - 1) :
                      exists(outFiles, [q EXCEPT !.name.n = k])]_vars

\* C5 witness: a relocated file was stored as <stem>_2<suffix>, the target
\* name and <stem>_1<suffix> being taken, and all three are in the tree.
C5_Witness ==
    /\ pc = "pmf_ret" /\ ~ARGS.dry_run
    /\ run.dest.name.n = 2
    /\ \A k \in 0..2 : exists(outFiles, [run.dest EXCEPT !.name.n = k])

\* the statuses at which the Decision Engine no longer evaluates a path
Settled == {"done_moved", "skipped_moved", "kept_original_moved", "copied_season"}

\* C6: when the Decision Engine finds a file unstable it returns having
\* written no status and changed nothing in either tree, and the file stays
\* eligible for evaluation: a path whose latest run ended at the stability
\* gate never comes to hold a status at which the engine stops.
C6_UnstableIsRetried ==
    [][/\ (pc \in {"pmf_stat1", "pmf_stat2"} /\ ProgramStep /\ run'.end = "unstable")
            => (pc' = "pmf_ret" /\ db' = db /\ NoFsChange)
       /\ \A f \in unstable' : status_of(db', f) \notin Settled]_vars

\* C6 is refuted by the season copy, which stamps a video found unstable in
\* the same pass copied_season: no witness.

EngineStepOn(f) ==
    cur = f /\ pc \in {"pmf_gate", "pmf_probe", "pmf_transcode", "pmf_finish"} /\ ProgramStep
\* a step after which f is no longer recorded error
LeavesError(f) == status_of(db, f) = "error" /\ status_of(db', f) # "error"
\* the gate lets a path recorded error through (to the stability check, or
\* to the operator's decline in confirm mode)
GatePassesError ==
    (pc = "pmf_gate" /\ ProgramStep /\ status_of(db, cur) = "error"
                     /\ ~is_temporary_name(cur.name))
       => (pc' = "pmf_stat1" \/ (ARGS.confirm /\ run'.end = "declined"))

\* C8 as stated: error never blocks or ends the processing of a file, bare
\* movie or show video: the gate lets a path recorded error through, and a
\* path stops being recorded error only by a Decision Engine run on it.
C8_ErrorIsRetried ==
    [][/\ GatePassesError
       /\ \A f \in Videos : LeavesError(f) => EngineStepOn(f)]_vars

\* C8 amended: the gate lets a path recorded error through, and a bare movie
\* stops being recorded error only by a Decision Engine run on it; a video
\* inside a show also does when the copy of its season (or of the show's top
\* directory) stamps it copied_season, after which the engine stops on it.
C8_ErrorIsRetriedAmended ==
    [][/\ GatePassesError
       /\ \A f \in Videos :
            LeavesError(f) =>
               \/ EngineStepOn(f)
               \/ /\ pc = "consolidate" /\ show # NoFile
                  /\ under(DirPath(show), f.dir)
                  /\ status_of(db', f) = "copied_season"]_vars

\* C8 witness: the engine runs again on a path recorded error and has passed
\* the gate.
C8_Witness ==
    /\ pc = "pmf_stat1" /\ run.pre.status = "error"
    /\ status_of(db, cur) = "error" /\ inFiles[cur].present

\* C9: every per-file failure (tool failure, missing output, unreadable size,
\* failed move or copy of the original, failed final rename) ends the run with
\* a persisted error for the file, and the Poll Loop goes on.
C9_FailuresBecomeErrors ==
    /\ pc # "crashed"
    /\ run.end \in {"tool_failed", "no_output", "stat_failed", "move_failed", "raised"}
          => (pc = "pmf_ret" /\ status_of(db, cur) = "error")

\* C9 is refuted by move_safe's copy2, whose exception nothing catches: no
\* witness.

\* the statuses that flag a season for the copy
RelocatedAsOriginal == {"skipped_moved", "kept_original_moved"}
\* the seasons of the grouping that hold a video with such a status
FlagWorthy(d) == {v[1] : v \in {w \in mapping : status_of(d, w[2]) \in RelocatedAsOriginal}}
\* the files present at or below a directory of the input tree
Below(inT, d) == {f \in Files : inT[f].present /\ under(d, f.dir)}
\* the last video of the show has been decided
ShowDecided == pc = "show_next" /\ pc' = "consolidate"
\* the copy of one flagged season
Consolidates == pc = "consolidate" /\ flagged' # flagged

\* C10 as stated: once every video of the show was run through the engine,
\* the seasons copied are exactly those holding a video recorded
\* skipped_moved or kept_original_moved; the copy puts every file of the
\* season's subtree (the show's directory for ""), companions included, at the
\* mirrored place and removes nothing from the source.
C10_SeasonConsolidation ==
    [][/\ ShowDecided => flagged' = FlagWorthy(db)
       /\ Consolidates =>
            \E sk \in flagged :
               LET src_dir == season_dir(DirPath(show), sk)
               IN /\ flagged' = flagged \ {sk}
                  /\ \A f \in Below(inFiles, src_dir) :
                       exists(outFiles', f) /\ outFiles'[f] = Orig(f, inFiles[f].size)
                  /\ inFiles' = inFiles
       /\ (pc = "consolidate" /\ ProgramStep) => flagged = {}]_vars

\* C10 amended: the same outside dry-run, where in addition the copy changes
\* nothing else in the output tree and the show is left only when no flagged
\* season remains; under dry-run the flagged seasons are gone through but
\* neither tree's files change.  In both modes the videos below the copied
\* directory are stamped copied_season.
C10_SeasonConsolidationAmended ==
    [][/\ ShowDecided => flagged' = FlagWorthy(db)
       /\ Consolidates =>
            \E sk \in flagged :
               LET src_dir == season_dir(DirPath(show), sk)
               IN /\ flagged' = flagged \ {sk}
                  /\ inFiles' = inFiles
                  /\ \A f \in Below(inFiles, src_dir) \cap Videos :
                       status_of(db', f) = "copied_season"
                  /\ IF ARGS.dry_run
                     THEN outFiles' = outFiles
                     ELSE /\ \A f \in Below(inFiles, src_dir) :
                               exists(outFiles', f) /\ outFiles'[f] = Orig(f, inFiles[f].size)
                          /\ \A q \in DOMAIN outFiles' \ Below(inFiles, src_dir) :
                               exists(outFiles, q) /\ outFiles'[q] = outFiles[q]
       /\ (pc = "consolidate" /\ ProgramStep) => (flagged = {} /\ NoFsChange)]_vars

\* C10 witness: outside dry-run the season's copy has put the subtitle next
\* to the episode in the output tree, and the subtitle is still in the input.
C10_Witness ==
    /\ pc = "consolidate" /\ ~ARGS.dry_run /\ flagged = {}
    /\ inFiles[Ep1_srt].present
    /\ exists(outFiles, Ep1_srt)
    /\ outFiles[Ep1_srt] = Orig(Ep1_srt, inFiles[Ep1_srt].size)

\* f was recorded done_moved before this pass began and still is, and a
\* sibling g in the same directory is recorded kept_original_moved, as the
\* copy of their season sk begins
DoneEarlierWithKeptSibling(f, g, sk) ==
    /\ f # g /\ f.dir = g.dir
    /\ under(DirPath(show), f.dir)
    /\ SeasonOf(DirPath(show), f) = sk
    /\ f \in earlier /\ status_of(db, f) = "done_moved"
    /\ status_of(db, g) = "kept_original_moved"

\* C11 as stated: if a video was transcoded and recorded done_moved in one
\* pass and in a later pass a sibling of the same season ends
\* kept_original_moved, the season's copy puts the subtree, companion files
\* included, into the output tree and changes the video's record from
\* done_moved to copied_season.
C11_DoneIsRestamped ==
    [][Consolidates =>
         \E sk \in flagged :
            /\ flagged' = flagged \ {sk}
            /\ \A f, g \in Videos :
                 DoneEarlierWithKeptSibling(f, g, sk) =>
                    /\ status_of(db', f) = "copied_season"
                    /\ \A c \in Below(inFiles, season_dir(DirPath(show), sk)) :
                         exists(outFiles', c) /\ outFiles'[c] = Orig(c, inFiles[c].size)]_vars

\* C11 amended: in that situation the video's record becomes copied_season
\* only if its source file is still in the input tree (its unlink failed, or
\* the earlier pass ran under dry-run); a video whose source was deleted by
\* its transcode keeps done_moved.  Outside dry-run the copy puts every file
\* present in the subtree, companion files included, into the output tree;
\* under dry-run it copies nothing.
C11_DoneIsRestampedAmended ==
    [][Consolidates =>
         \E sk \in flagged :
            /\ flagged' = flagged \ {sk}
            /\ \A f, g \in Videos :
                 DoneEarlierWithKeptSibling(f, g, sk) =>
                    /\ status_of(db', f) = IF inFiles[f].present THEN "copied_season"
                                           ELSE "done_moved"
                    /\ IF ARGS.dry_run
                       THEN outFiles' = outFiles
                       ELSE \A c \in Below(inFiles, season_dir(DirPath(show), sk)) :
                              exists(outFiles', c) /\ outFiles'[c] = Orig(c, inFiles[c].size)]_vars

\* C11 witness: outside dry-run ep2 was transcoded in an earlier pass and its
\* source deleted, ep1 ended kept_original_moved in this pass, the season was
\* copied with the subtitle, and ep2 is still recorded done_moved.
C11_Witness ==
    /\ pc = "consolidate" /\ ~ARGS.dry_run /\ flagged = {}
    /\ Ep2_mkv \in earlier /\ ~inFiles[Ep2_mkv].present
    /\ status_of(db, Ep2_mkv) = "done_moved"
    /\ status_of(db, Ep1_avi) = "kept_original_moved"
    /\ inFiles[Ep1_srt].present /\ exists(outFiles, Ep1_srt)

\* a step taken by the program, the copy of a season (which stays at its
\* place in the loop) included
ProgramActs == ProgramStep \/ Consolidates

\* C12: under dry-run the program performs no mutating action: it changes no
\* file and no directory of either tree, does not run the transcoder, and
\* every confirmation is accepted without a prompt.
C12_DryRunMutatesNothing ==
    [][(ARGS.dry_run /\ ProgramActs) =>
          /\ NoFsChange
          /\ ~run'.ran /\ ~run'.prompted /\ run'.end # "declined"]_vars

\* C12 is refuted by ensure_dir, which move_safe, copy_tree_safe and
\* process_movie_file call before they look at the flag: no witness.

\* the statuses the specification calls terminal, and error
TerminalOrError == Settled \cup {"skipped_by_user", "error"}

\* C13: a season is copied only after every video of the show's grouping was
\* passed through the Decision Engine, and at that moment every video of
\* that season has a terminal or error status.
C13_ConsolidationAfterDecisions ==
    [][Consolidates =>
          /\ vids = {}
          /\ \E sk \in flagged :
               /\ flagged' = flagged \ {sk}
               /\ \A v \in mapping :
                    v[1] = sk => status_of(db, v[2]) \in TerminalOrError]_vars

\* C13 is refuted by a video the engine found unstable, which has no status
\* when its season is copied: no witness.

\* C14: after the Decision Engine returns for a file it transcoded, whatever
\* the outcome, no artifact with the .transcoding suffix remains at the
\* file's temporary path (stated outside dry-run).
C14_NoTemporaryArtifactLeft ==
    (pc = "pmf_ret" /\ ~ARGS.dry_run /\ run.invoked)
       => ~exists(outFiles, dest_tmp_of(cur))

\* C14 is refuted by the returns for stat_failed and move_failed, which leave
\* the artifact where it is: no witness.

\* C15: an operator interrupt stops the Poll Loop only at a pass boundary
\* (before a pass begins, or when every entry of the pass was visited), never
\* while a file is being decided.
C15_InterruptAtPassBoundary ==
    [][pc' = "interrupted" =>
          \/ pc = "pass_start"
          \/ pc = "dispatch" /\ todo = <<>>]_vars

\* C15 is refuted by the handler, which encloses the whole loop: the
\* interrupt ends the run wherever it arrives.  No witness.

\* the output path q holds content c at the mirror of c's source: the same
\* directory, and the source's name (an original), or the source's stem with
\* .mp4 (a transcode; .mp4.transcoding while it is temporary), up to a
\* collision suffix
Mirrored(q, c) ==
    \/ c = Foreign
    \/ /\ c.kind = "orig"
       /\ q.dir = c.of.dir
       /\ SameNameUpToN(q.name, c.of.name)
    \/ /\ c.kind = "trans"
       /\ q.dir = c.of.dir
       /\ \/ q = dest_tmp_of(c.of)
          \/ SameNameUpToN(q.name, with_suffix(c.of.name, ".mp4"))

Survives(inT, out, f) ==
    \/ inT[f].present
    \/ \E q \in DOMAIN out :
         /\ q.name.suffix # ".mp4" \o TEMP_SUFFIX
         /\ out[q].kind \in {"orig", "trans"}
         /\ out[q].of = f

\* C17: outside dry-run no step of the program removes a source from the
\* input tree unless its replacement (the moved or copied original, or the
\* renamed artifact) is in the output tree after the step, and no step
\* removes the last copy of a video: a video that exists in one of the two
\* trees still exists in one of them after every step of the program.
C17_NoVideoLost ==
    [][(ProgramActs /\ ~ARGS.dry_run) =>
          \A f \in Videos :
             Survives(inFiles, outFiles, f) => Survives(inFiles', outFiles', f)]_vars

\* C17 is refuted by a run that finishes on the artifact another source left
\* behind at the same temporary path: no witness.

\* C18: a video that has not passed the stability gate (the engine's last
\* look at it found it still changing or empty) is not copied or moved into
\* the output tree and does not receive a terminal status by any step of the
\* program, the consolidation of its season included.
C18_UnstableStaysOut ==
    [][ProgramActs =>
          \A f \in unstable \cap unstable' :
             /\ status_of(db', f) \notin Settled
             /\ \A q \in DOMAIN outFiles' :
                  outFiles'[q].of = f =>
                     (q \in DOMAIN outFiles /\ outFiles'[q] = outFiles[q])]_vars

\* C18 is refuted by the copy of a season, which takes the unstable sibling
\* along and stamps it copied_season: no witness.

\* C19: a relocation status is written only when the relocation happened,
\* also under dry-run (the mode the formula is stated for): when
\* skipped_moved or kept_original_moved is recorded the original is at the
\* destination named in the note and no longer at its source path, and when
\* done_moved is recorded the transcoded artifact is at the destination named
\* in the note.
C19_StatusMeansRelocated ==
    [][(ARGS.dry_run /\ ProgramStep /\ cur # NoFile /\ db'[cur] # db[cur]) =>
          LET st == status_of(db', cur)
              dest == db'[cur].note.dest
          IN /\ st \in RelocatedAsOriginal =>
                  /\ exists(outFiles', dest)
                  /\ outFiles'[dest].kind = "orig" /\ outFiles'[dest].of = cur
                  /\ ~inFiles'[cur].present
             /\ st = "done_moved" =>
                  /\ exists(outFiles', dest)
                  /\ outFiles'[dest].kind = "trans"]_vars

\* C19 is refuted under dry-run, where the status is recorded and nothing is
\* relocated (outside dry-run a move whose source could not be unlinked also
\* records the status with the original still at its source): no witness.

====
